---- MODULE Spec2Model ----
(***************************************************************************)
(* Model of benchmark_providers.py: the PROVIDERS registry, test_provider  *)
(* (one blocking HTTP request per email, each answered by a Verdict) and   *)
(* main (the loop over PROVIDERS, the confusion matrix, the rates and the  *)
(* printed table).                                                         *)
(*                                                                         *)
(* Python values are encoded as records [kind, val] of strings, so that    *)
(* values of different Python types can be compared.  None is PyNone.      *)
(* Wall-clock time is not modelled: every request lasts ElapsedMs.         *)
(***************************************************************************)
EXTENDS Integers, Sequences, FiniteSets

\* ------------------------------------------------------------------------
\* Bounds of the model
\* ------------------------------------------------------------------------

\* Total number of lines over the three input files of one run.
MaxEmails == 2

\* Number of requests of one run that the services answer with a body the
\* provider's map_func classifies as disposable.
MaxPositives == 1

\* ------------------------------------------------------------------------
\* Python / JSON values
\* ------------------------------------------------------------------------

JV(k, v) == [kind |-> k, val |-> v]

\* A key that the JSON object does not have.
Absent == JV("absent", "")
PyNone == JV("null", "")
PyTrue == JV("bool", "true")
PyFalse == JV("bool", "false")
PyBool(b) == IF b THEN PyTrue ELSE PyFalse
PyInt0 == JV("num", "0")
PyInt1 == JV("num", "1")
PyStr(s) == JV("str", s)
EmptyDict == JV("obj", "empty")
SomeDict == JV("obj", "nonempty")

\* bool(v)
Truthy(v) ==
    CASE v.kind = "null" -> FALSE
      [] v.kind = "bool" -> v.val = "true"
      [] v.kind = "num" -> v.val # "0"
      [] v.kind = "str" -> v.val # ""
      [] OTHER -> v.val # "empty"

\* v == w.  bool is a subclass of int: True == 1 and False == 0.
AsNum(v) == IF v.kind = "bool" THEN JV("num", IF v.val = "true" THEN "1" ELSE "0") ELSE v
PyEq(v, w) == AsNum(v) = AsNum(w)

\* str.lower() on the strings the model uses
Lower(s) ==
    CASE s = "TRUE" -> "true"
      [] s = "FALSE" -> "false"
      [] s = "Yes" -> "yes"
      [] OTHER -> s

\* A decoded response body.  A JSON object carries the values of the keys the
\* classification functions read; domain_disposable is the "disposable" key
\* of the object under "domain".
Body(k, dom, dd, disp, isd) ==
    [kind |-> k, domain |-> dom, domain_disposable |-> dd,
     disposable |-> disp, is_disposable |-> isd]

ObjBody(dom, dd, disp, isd) == Body("obj", dom, dd, disp, isd)

\* A JSON document that is not an object (a list, null).
NonObjBody(k) == Body(k, Absent, Absent, Absent, Absent)

\* dict.get(key, default); a value without .get raises AttributeError.
Get(d, key, default) == IF d[key] = Absent THEN default ELSE d[key]

Returned(v) == [raised |-> FALSE, value |-> v]
Raised == [raised |-> TRUE, value |-> PyNone]

\* ------------------------------------------------------------------------
\* The registry
\* ------------------------------------------------------------------------

EnvVars == {"BOUNCER_API_KEY", "EMAILABLE_API_KEY", "BOUNCIFY_API_KEY",
            "MAILCHECK_API_KEY", "REOON_API_KEY", "KICKBOX_API_KEY"}

\* os.getenv(name): the value, or None when the variable is not set
getenv(e, name) == IF name \in e THEN PyStr(name) ELSE PyNone

GET == "GET"

PROVIDERS(e) == <<
    [name |-> "Bouncer", method |-> GET,
     headers |-> [x_api_key |-> getenv(e, "BOUNCER_API_KEY")],
     params |-> [email |-> PyNone]],
    [name |-> "Emailable", method |-> GET,
     headers |-> <<>>,
     params |-> [email |-> PyNone, api_key |-> getenv(e, "EMAILABLE_API_KEY")]],
    [name |-> "Bouncify", method |-> GET,
     headers |-> [Accept |-> PyStr("*/*"), Content_Type |-> PyStr("application/json")],
     params |-> [apikey |-> getenv(e, "BOUNCIFY_API_KEY"), email |-> PyNone]],
    [name |-> "Mail-Check", method |-> GET,
     headers |-> [x_rapidapi_host |-> PyStr("mailcheck.p.rapidapi.com"),
                  x_rapidapi_key |-> getenv(e, "MAILCHECK_API_KEY")],
     params |-> [domain |-> PyStr("mailinator.com")]],
    [name |-> "Reoon", method |-> GET,
     headers |-> <<>>,
     params |-> [email |-> PyNone, key |-> getenv(e, "REOON_API_KEY"),
                 mode |-> PyStr("quick")]],
    [name |-> "Debounce", method |-> GET,
     headers |-> <<>>,
     params |-> [email |-> PyNone]],
    [name |-> "Kickbox", method |-> GET,
     headers |-> <<>>,
     params |-> [email |-> PyNone, apikey |-> getenv(e, "KICKBOX_API_KEY")]]
>>

NumProviders == Len(PROVIDERS({}))

ProviderNames == [q \in 1..NumProviders |-> PROVIDERS({})[q].name]

\* Bouncer: resp.get("domain", {}).get("disposable") == "yes"
BouncerMap(resp) ==
    IF resp.kind # "obj" THEN Raised
    ELSE LET dom == Get(resp, "domain", EmptyDict)
         IN  IF dom.kind # "obj" THEN Raised
             ELSE LET v == IF dom = EmptyDict \/ resp.domain_disposable = Absent
                           THEN PyNone ELSE resp.domain_disposable
                  IN  Returned(PyBool(PyEq(v, PyStr("yes"))))

\* Emailable, Mail-Check, Kickbox: resp.get("disposable", False)
DisposableMap(resp) ==
    IF resp.kind # "obj" THEN Raised
    ELSE Returned(Get(resp, "disposable", PyFalse))

\* Bouncify: resp.get("disposable", 0) == 1
BouncifyMap(resp) ==
    IF resp.kind # "obj" THEN Raised
    ELSE Returned(PyBool(PyEq(Get(resp, "disposable", PyInt0), PyInt1)))

\* Reoon: resp.get("is_disposable", False)
ReoonMap(resp) ==
    IF resp.kind # "obj" THEN Raised
    ELSE Returned(Get(resp, "is_disposable", PyFalse))

\* Debounce: resp.get("disposable", "false").lower() == "true"
DebounceMap(resp) ==
    IF resp.kind # "obj" THEN Raised
    ELSE LET v == Get(resp, "disposable", PyStr("false"))
         IN  IF v.kind # "str" THEN Raised
             ELSE Returned(PyBool(PyEq(PyStr(Lower(v.val)), PyStr("true"))))

\* provider["map_func"](data)
map_func(name, resp) ==
    CASE name = "Bouncer" -> BouncerMap(resp)
      [] name = "Bouncify" -> BouncifyMap(resp)
      [] name = "Reoon" -> ReoonMap(resp)
      [] name = "Debounce" -> DebounceMap(resp)
      [] OTHER -> DisposableMap(resp)

\* ------------------------------------------------------------------------
\* State
\* ------------------------------------------------------------------------

VARIABLES
    env,                \* the API-key variables that are set (read at import)
    missed,             \* load_emails(args.missed)
    detected,           \* load_emails(args.detected), [] without --detected
    normal,             \* load_emails(args.normal)
    pc,                 \* where main is
    p,                  \* index in PROVIDERS of the provider of the for loop
    phase,              \* which test_provider call of the iteration is running
    i,                  \* index in email_list of the email of the inner loop
    results,            \* test_provider's results
    sent,               \* emails of the requests issued by the running call
    outstanding,        \* requests issued and not yet returned
    last,               \* how the last returned request of the call ended
    results_disposable, \* main's results_disposable
    results_normal,     \* main's results_normal
    stats,              \* main's counts and rates of the last scored provider
    summary_records,    \* main's summary_records
    printed             \* the rows of the printed table

vars == <<env, missed, detected, normal, pc, p, phase, i, results, sent,
          outstanding, last, results_disposable, results_normal, stats,
          summary_records, printed>>

Emails == {"a@mailinator.com", "b@gmail.com"}

Environments == {{}, EnvVars}

\* The sequences over S of length at most n
SeqsUpTo(S, n) == UNION {[1..k -> S] : k \in 0..n}

DetectedFirst == detected \o missed
\* disposable_emails = missed + detected
disposable_emails == missed \o detected

\* The list the running test_provider call iterates over, and its flag
email_list == IF phase = "disposable" THEN disposable_emails ELSE normal
expected_flag == phase = "disposable"

provider == PROVIDERS(env)[p]

\* Lines 120-125: the template with every None entry replaced by the email
BuildParams(template, email) ==
    [k \in DOMAIN template |->
        IF template[k] = PyNone THEN PyStr(email) ELSE template[k]]

\* (time.time() - start) * 1000 of one request
ElapsedMs == 40

Verdict(predicted) ==
    [predicted |-> predicted, expected |-> expected_flag, time_ms |-> ElapsedMs]

\* The exceptions the try block can raise, and the ones `except Exception`
\* handles: each of them derives from Exception.
ExceptionClasses == {"RequestException", "HTTPError", "JSONDecodeError", "AttributeError"}
CatchesOnlyRequestErrors(exc) == exc \in {"RequestException", "HTTPError"}
Catches(exc) == exc \in ExceptionClasses

\* Whether the status of a response makes the try block raise: the code calls
\* resp.json() on whatever requests.get returns, and never raise_for_status().
Is2xx(status) == status >= 200 /\ status < 300
RaisesOnNon2xx(status) == ~Is2xx(status)
StatusRaises(status) == FALSE

\* The for loop's next index after an iteration
RetryIndex(idx, failed) == IF failed THEN idx ELSE idx + 1
NextIndex(idx, failed) == idx + 1

NoOutcome == [kind |-> "none", status |-> 0, body |-> NonObjBody("none"), exc |-> "none"]

\* Values a key of a response object may hold
FieldValues == {Absent, PyNone, PyTrue, PyFalse, PyInt0, PyInt1,
                PyStr("yes"), PyStr("TRUE"), PyStr("false")}

\* Decoded bodies a service may answer with: a document that is not an
\* object, the object without any of the keys, and objects that vary the key
\* the provider's map_func reads (a key it does not read changes nothing).
Bodies(name) ==
    {NonObjBody("list"), ObjBody(Absent, Absent, Absent, Absent)}
    \cup
    CASE name = "Bouncer" ->
            {ObjBody(d, Absent, Absent, Absent) :
                d \in {PyNone, EmptyDict, PyStr("mailinator.com")}}
            \cup {ObjBody(SomeDict, v, Absent, Absent) :
                v \in {Absent, PyStr("yes"), PyStr("no"), PyTrue}}
      [] name = "Reoon" ->
            {ObjBody(Absent, Absent, Absent, v) : v \in FieldValues}
      [] OTHER ->
            {ObjBody(Absent, Absent, v, Absent) : v \in FieldValues}

Statuses == {200, 500}

RECURSIVE SumPositives(_)
SumPositives(rows) ==
    IF rows = <<>> THEN 0
    ELSE Head(rows).TruePositives + Head(rows).FalsePositives + SumPositives(Tail(rows))

CountPredicted(rs) == Cardinality({j \in 1..Len(rs) : rs[j].predicted})

\* Requests of the run answered "disposable" so far
Positives ==
    SumPositives(summary_records)
    + (IF pc \in {"send", "wait", "score"}
       THEN CountPredicted(results) + CountPredicted(results_disposable)
       ELSE 0)

\* ------------------------------------------------------------------------
\* Scoring (main, lines 175-214)
\* ------------------------------------------------------------------------

\* A Python quotient: the float num / den
Frac(n, d) == [num |-> n, den |-> d]

\* The int 0 of the `else 0` branches
Zero == Frac(0, 1)

Count(rs, pred, exp) ==
    Cardinality({j \in 1..Len(rs) : rs[j].predicted = pred /\ rs[j].expected = exp})

true_positives(rs) == Count(rs, TRUE, TRUE)

AllNotPredicted(rs) == Cardinality({j \in 1..Len(rs) : ~rs[j].predicted})
false_negatives(rs) == Count(rs, FALSE, TRUE)

false_positives(rs) == Count(rs, TRUE, FALSE)
true_negatives(rs) == Count(rs, FALSE, FALSE)

RECURSIVE SumTime(_)
SumTime(rs) == IF rs = <<>> THEN 0 ELSE Head(rs).time_ms + SumTime(Tail(rs))

avg_response_time(rs) ==
    IF Len(rs) # 0 THEN Frac(SumTime(rs), Len(rs)) ELSE Zero

AccuracyOfPositivesOnly(tp, tn, total) ==
    IF total # 0 THEN Frac(tp, total) ELSE Zero
accuracy(tp, tn, total) ==
    IF total # 0 THEN Frac(tp + tn, total) ELSE Zero

precision(tp, fp) ==
    IF tp + fp # 0 THEN Frac(tp, tp + fp) ELSE Zero

recall(tp, fn) ==
    IF tp + fn # 0 THEN Frac(tp, tp + fn) ELSE Zero

\* round(x, ndigits) in units of 10^-ndigits (scale = 10^ndigits): the
\* nearest multiple, a tie going to the even one.
Round(f, scale) ==
    LET x == f.num * scale
        q == x \div f.den
        r == x % f.den
    IN  IF 2 * r < f.den THEN q
        ELSE IF 2 * r > f.den THEN q + 1
        ELSE IF q % 2 = 0 THEN q ELSE q + 1

Hundredths == 100
Thousandths == 1000

\* The locals of one iteration of main's for loop, lines 175-199
Stats(rs) ==
    LET tp == true_positives(rs)
        fn == false_negatives(rs)
        fp == false_positives(rs)
        tn == true_negatives(rs)
        total == Len(rs)
    IN  [scored |-> TRUE,
         true_positives |-> tp, false_negatives |-> fn,
         false_positives |-> fp, true_negatives |-> tn,
         total_requests |-> total,
         avg_response_time |-> avg_response_time(rs),
         accuracy |-> accuracy(tp, tn, total),
         precision |-> precision(tp, fp),
         recall |-> recall(tp, fn)]

NoStats ==
    [scored |-> FALSE,
     true_positives |-> 0, false_negatives |-> 0,
     false_positives |-> 0, true_negatives |-> 0, total_requests |-> 0,
     avg_response_time |-> Zero, accuracy |-> Zero, precision |-> Zero,
     recall |-> Zero]

\* The record appended to summary_records, lines 201-214
SummaryRecord(name, st) ==
    [Provider |-> name,
     TotalRequests |-> st.total_requests,
     AverageResponseMs |-> Round(st.avg_response_time, Hundredths),
     TruePositives |-> st.true_positives,
     FalseNegatives |-> st.false_negatives,
     FalsePositives |-> st.false_positives,
     TrueNegatives |-> st.true_negatives,
     Accuracy |-> Round(st.accuracy, Thousandths),
     Precision |-> Round(st.precision, Thousandths),
     Recall |-> Round(st.recall, Thousandths)]

\* ------------------------------------------------------------------------
\* The run
\* ------------------------------------------------------------------------

Init ==
    /\ env \in Environments
    /\ missed \in SeqsUpTo(Emails, MaxEmails)
    /\ detected \in SeqsUpTo(Emails, MaxEmails - Len(missed))
    /\ normal \in SeqsUpTo(Emails, MaxEmails - Len(missed) - Len(detected))
    /\ pc = "provider"
    /\ p = 1
    /\ phase = "disposable"
    /\ i = 1
    /\ results = <<>>
    /\ sent = <<>>
    /\ outstanding = {}
    /\ last = NoOutcome
    /\ results_disposable = <<>>
    /\ results_normal = <<>>
    /\ stats = NoStats
    /\ summary_records = <<>>
    /\ printed = <<>>

\* main, line 172-173: the next provider of the for loop; test_provider is
\* called with disposable_emails and True.
StartProvider ==
    /\ pc = "provider"
    /\ p <= NumProviders
    /\ pc' = "send"
    /\ phase' = "disposable"
    /\ i' = 1
    /\ results' = <<>>
    /\ sent' = <<>>
    /\ last' = NoOutcome
    /\ results_disposable' = <<>>
    /\ results_normal' = <<>>
    /\ UNCHANGED <<env, missed, detected, normal, p, outstanding, stats,
                   summary_records, printed>>

\* test_provider, lines 119-143: the parameters are built and the request is
\* issued; the call blocks until the request returns.
SendRequest ==
    /\ pc = "send"
    /\ i <= Len(email_list)
    /\ outstanding' = outstanding \cup
          {[provider |-> provider.name, method |-> provider.method,
            headers |-> provider.headers,
            params |-> BuildParams(provider.params, email_list[i]),
            email |-> email_list[i], expected |-> expected_flag, index |-> i]}
    /\ sent' = Append(sent, email_list[i])
    /\ last' = NoOutcome
    /\ pc' = "wait"
    /\ UNCHANGED <<env, missed, detected, normal, p, phase, i, results,
                   results_disposable, results_normal, stats, summary_records,
                   printed>>

\* test_provider, lines 144-154: the rest of the iteration once the request
\* has returned.  exc is the exception the try block raised ("none" if it
\* ran to its end); an exception the except clause does not handle leaves
\* test_provider and main.
Finish(predicted, outcome) ==
    /\ predicted => Positives < MaxPositives
    /\ outstanding' = {}
    /\ last' = outcome
    /\ IF outcome.exc # "none" /\ ~Catches(outcome.exc)
       THEN /\ pc' = "crashed"
            /\ UNCHANGED <<i, results>>
       ELSE /\ results' = Append(results, Verdict(predicted))
            /\ i' = NextIndex(i, outcome.exc # "none")
            /\ pc' = "send"
    /\ UNCHANGED <<env, missed, detected, normal, p, phase, sent,
                   results_disposable, results_normal, stats, summary_records,
                   printed>>

\* requests.get raises: connection error or timeout.
RequestRaises ==
    /\ pc = "wait"
    /\ Finish(FALSE, [kind |-> "error", status |-> 0,
                      body |-> NonObjBody("none"), exc |-> "RequestException"])

\* A response whose body is not JSON: resp.json() raises.
ResponseNotJson ==
    /\ pc = "wait"
    /\ \E status \in Statuses :
          Finish(FALSE, [kind |-> "nonjson", status |-> status,
                         body |-> NonObjBody("none"),
                         exc |-> IF StatusRaises(status) THEN "HTTPError"
                                 ELSE "JSONDecodeError"])

\* A response with a JSON body: predicted_flag = bool(map_func(data)).
ResponseJson ==
    /\ pc = "wait"
    /\ \E status \in Statuses, body \in Bodies(provider.name) :
          LET m == map_func(provider.name, body)
              exc == IF StatusRaises(status) THEN "HTTPError"
                     ELSE IF m.raised THEN "AttributeError" ELSE "none"
          IN  Finish(exc = "none" /\ Truthy(m.value),
                     [kind |-> "json", status |-> status, body |-> body,
                      exc |-> exc])

\* test_provider, line 156, and main, lines 173-174: the call returns; after
\* the disposable list comes the call with normal and False.
ReturnResults ==
    /\ pc = "send"
    /\ i > Len(email_list)
    /\ IF phase = "disposable"
       THEN /\ results_disposable' = results
            /\ phase' = "normal"
            /\ pc' = "send"
            /\ UNCHANGED results_normal
       ELSE /\ results_normal' = results
            /\ pc' = "score"
            /\ UNCHANGED <<results_disposable, phase>>
    /\ i' = 1
    /\ results' = <<>>
    /\ sent' = <<>>
    /\ last' = NoOutcome
    /\ UNCHANGED <<env, missed, detected, normal, p, outstanding, stats,
                   summary_records, printed>>

\* main, lines 175-214: the counts, the rates and the provider's record.
Score ==
    /\ pc = "score"
    /\ stats' = Stats(results_disposable \o results_normal)
    /\ summary_records' = Append(summary_records, SummaryRecord(provider.name, stats'))
    /\ p' = p + 1
    /\ pc' = "provider"
    /\ UNCHANGED <<env, missed, detected, normal, phase, i, results, sent,
                   outstanding, last, results_disposable, results_normal,
                   printed>>

\* main, lines 216-217: the table is printed once the for loop is over.
PrintReport ==
    /\ pc = "provider"
    /\ p > NumProviders
    /\ printed' = summary_records
    /\ pc' = "done"
    /\ UNCHANGED <<env, missed, detected, normal, p, phase, i, results, sent,
                   outstanding, last, results_disposable, results_normal,
                   stats, summary_records>>

Next ==
    \/ StartProvider
    \/ SendRequest
    \/ RequestRaises
    \/ ResponseNotJson
    \/ ResponseJson
    \/ ReturnResults
    \/ Score
    \/ PrintReport

Spec == Init /\ [][Next]_vars

\* Each step of the program is taken once it can be: the run is one thread,
\* and every request returns or raises (timeout=10).
FairSpec == Spec /\ WF_vars(Next)

\* ------------------------------------------------------------------------
\* Properties
\* ------------------------------------------------------------------------

\* The Verdict of the request that returned last in the running call
LastVerdict == results[Len(results)]

\* The last request failed: the call raised, the body was not JSON, or
\* map_func raised on the decoded body
Failed ==
    \/ last.kind = "error"
    \/ last.kind = "nonjson"
    \/ last.kind = "json" /\ map_func(ProviderNames[p], last.body).raised

\* C1: a request that raises, a body that is not JSON and a map_func that
\* raises each give a Verdict with predicted = false and expected =
\* expected_flag; no exception leaves test_provider, and the loop is at the
\* next email.
C1_FailuresContained ==
    /\ pc # "crashed"
    /\ Failed =>
          /\ pc = "send"
          /\ Len(results) = Len(sent)
          /\ LastVerdict.predicted = FALSE
          /\ LastVerdict.expected = expected_flag
          /\ i = Len(sent) + 1

C1_Witness ==
    /\ last.kind = "json"
    /\ Failed
    /\ pc = "send"
    /\ i = 2
    /\ Len(email_list) = 2
    /\ LastVerdict.predicted = FALSE

\* C2 as claimed: a response whose status is not 2xx gives predicted = false,
\* whatever its body.
C2_Non2xxIsFailure ==
    (last.kind \in {"json", "nonjson"} /\ ~Is2xx(last.status))
        => LastVerdict.predicted = FALSE

\* C2 as amended: the status of a response is not examined; the Verdict of a
\* response with a JSON body has predicted = bool(map_func(body)), false if
\* map_func raises, for a 2xx status and for any other.
C2_StatusIgnored ==
    last.kind = "json" =>
        LET m == map_func(ProviderNames[p], last.body)
        IN  /\ pc = "send"
            /\ LastVerdict.predicted = (~m.raised /\ Truthy(m.value))

C2_Witness ==
    /\ last.kind = "json"
    /\ ~Is2xx(last.status)
    /\ pc = "send"
    /\ LastVerdict.predicted = TRUE

\* C3: the running call has issued one request per element of the prefix of
\* email_list it has gone through, in list order and none twice, and has
\* appended one Verdict after each returned request; a finished call has
\* returned as many Verdicts as its list has emails.
C3_OneRequestOneVerdict ==
    /\ pc \in {"send", "wait"} =>
          /\ Len(sent) <= Len(email_list)
          /\ sent = SubSeq(email_list, 1, Len(sent))
          /\ Len(results) + Cardinality(outstanding) = Len(sent)
          /\ \A r \in outstanding :
                r.index = Len(sent) /\ r.email = email_list[Len(sent)]
    /\ (pc = "score" \/ (pc = "send" /\ phase = "normal"))
          => Len(results_disposable) = Len(disposable_emails)
    /\ pc = "score" => Len(results_normal) = Len(normal)
    /\ \A j \in 1..Len(results) : results[j].expected = expected_flag

C3_Witness ==
    /\ pc = "send"
    /\ Len(email_list) = 2
    /\ email_list[1] = email_list[2]
    /\ Len(results) = 2
    /\ results[1].predicted
    /\ last.exc # "none"

\* The value the provider's API documents for a disposable address
DocumentedPositive(name, body) ==
    CASE name = "Bouncer" ->
            body.domain = SomeDict /\ body.domain_disposable = PyStr("yes")
      [] name = "Bouncify" -> body.disposable \in {PyInt1, PyTrue}
      [] name = "Reoon" -> body.is_disposable = PyTrue
      [] name = "Debounce" -> body.disposable \in {PyStr("true"), PyStr("TRUE")}
      [] OTHER -> body.disposable = PyTrue

\* C4: on a JSON object whose classification field is missing or is not the
\* documented positive value, map_func does not raise and returns a value
\* that coerces to false.
C4_MapFuncTotal ==
    (last.kind = "json" /\ last.body.kind = "obj"
        /\ ~DocumentedPositive(ProviderNames[p], last.body))
    => LET m == map_func(ProviderNames[p], last.body)
       IN  ~m.raised /\ ~Truthy(m.value)

\* C5: the parameters of every request hold the email under test in one
\* slot, and every non-null template entry unchanged.
C5_EveryRequestCarriesEmail ==
    \A r \in outstanding :
        /\ \E k \in DOMAIN r.params : r.params[k] = PyStr(r.email)
        /\ \A k \in DOMAIN r.params :
              provider.params[k] # PyNone => r.params[k] = provider.params[k]

\* C6: every provider's record has Total Requests = True Positives + False
\* Negatives + False Positives + True Negatives, the number of Verdicts
\* collected for the provider.
C6_TotalIsSumOfCounts ==
    /\ \A q \in 1..Len(summary_records) :
          LET row == summary_records[q]
          IN  row.TotalRequests =
                 row.TruePositives + row.FalseNegatives
                 + row.FalsePositives + row.TrueNegatives
    /\ (pc \in {"provider", "done"} /\ p > 1) =>
          summary_records[p - 1].TotalRequests =
              Len(results_disposable) + Len(results_normal)

C6_Witness ==
    /\ pc = "provider"
    /\ p > 1
    /\ summary_records[p - 1].TotalRequests = 2
    /\ summary_records[p - 1].TrueNegatives = 1
    /\ summary_records[p - 1].FalseNegatives = 1

\* The Verdicts the last scored provider was scored on
ScoredVerdicts == results_disposable \o results_normal

\* f is the quotient n / d, or 0 when d is 0
IsRate(f, n, d) ==
    IF d = 0 THEN f = Zero
    ELSE f.den # 0 /\ f.num * d = n * f.den

\* C7: before rounding, accuracy = (tp+tn)/total, precision = tp/(tp+fp) and
\* recall = tp/(tp+fn), each 0 when its denominator is 0; the empty sequence
\* gives total 0 and three rates 0, and a sequence in which every predicted
\* differs from expected gives accuracy 0.
C7_Rates ==
    /\ stats.scored =>
          /\ IsRate(stats.accuracy,
                    stats.true_positives + stats.true_negatives,
                    stats.total_requests)
          /\ IsRate(stats.precision, stats.true_positives,
                    stats.true_positives + stats.false_positives)
          /\ IsRate(stats.recall, stats.true_positives,
                    stats.true_positives + stats.false_negatives)
    /\ (pc \in {"provider", "done"} /\ p > 1) =>
          LET rs == ScoredVerdicts
              right == Cardinality({j \in 1..Len(rs) :
                                      rs[j].predicted = rs[j].expected})
          IN  /\ stats.total_requests = Len(rs)
              /\ IsRate(stats.accuracy, right, Len(rs))
              /\ rs = <<>> =>
                    /\ stats.accuracy = Zero
                    /\ stats.precision = Zero
                    /\ stats.recall = Zero
              /\ right = 0 => stats.accuracy.num = 0

C7_Witness ==
    /\ pc = "provider"
    /\ p > 1
    /\ Len(ScoredVerdicts) = 2
    /\ \A j \in 1..2 : ScoredVerdicts[j].predicted # ScoredVerdicts[j].expected
    /\ stats.accuracy.num = 0
    /\ stats.precision = Frac(0, 1)
    /\ stats.recall = Zero

\* The printed table has one row per provider of PROVIDERS, in registry order
FullReport ==
    /\ Len(printed) = NumProviders
    /\ \A q \in 1..NumProviders : printed[q].Provider = ProviderNames[q]

\* C8: whatever the requests' outcomes, the run ends by printing a table
\* with one row for each provider, in registry order (under FairSpec: the
\* run takes its next step as long as it has one).
C8_ReportAlwaysPrinted == <>(pc = "done" /\ FullReport)

C8_Witness ==
    /\ pc = "done"
    /\ FullReport
    /\ Len(disposable_emails) = 2
    /\ \A q \in 1..NumProviders :
          printed[q].TruePositives = 0 /\ printed[q].FalseNegatives = 2

\* C9: at most one request is outstanding; it belongs to the provider of the
\* for loop, whose predecessors all have their record; a request for the
\* disposable list is for the next email of missed + detected, and a request
\* for the normal list is issued with every Verdict of the disposable list
\* recorded.
C9_Sequential ==
    /\ Cardinality(outstanding) <= 1
    /\ \A r \in outstanding :
          /\ pc = "wait"
          /\ r.provider = ProviderNames[p]
          /\ Len(summary_records) = p - 1
          /\ \A q \in 1..(p - 1) : summary_records[q].Provider = ProviderNames[q]
          /\ Len(results) = r.index - 1
          /\ r.expected =>
                /\ r.index <= Len(missed) + Len(detected)
                /\ r.email = (missed \o detected)[r.index]
                /\ results_disposable = <<>>
          /\ ~r.expected =>
                /\ r.email = normal[r.index]
                /\ Len(results_disposable) = Len(missed) + Len(detected)
                /\ \A j \in 1..Len(results_disposable) :
                      results_disposable[j].expected

C9_Witness ==
    \E r \in outstanding :
        /\ ~r.expected
        /\ p = 2
        /\ Len(missed) = 1
        /\ Len(results_disposable) = 1
        /\ Len(summary_records) = 1

CredentialKeys == {"api_key", "apikey", "key"}

\* C10: the email under test appears only under the key "email"; a
\* credential parameter never carries it, whether the API-key variable is set
\* or not.
C10_CredentialNeverEmail ==
    \A r \in outstanding :
        \A k \in DOMAIN r.params :
            (k # "email" \/ k \in CredentialKeys) => r.params[k] # PyStr(r.email)

====
